---- MODULE Spec2Model ----
(***************************************************************************)
(* Persistence-and-scoring core of the AegisCore dashboard back end:       *)
(* the circuit-breaker gate and the persistence adapter of                 *)
(* backend/core/database.py, the persist step of                           *)
(* backend/run_live_detection.py and resolve_threat of backend/main.py.    *)
(*                                                                         *)
(* Time is in whole seconds.  A Python value that may be None, a list or   *)
(* something else is a record [kind, data]; an alert record is             *)
(* [id, timestamp, status]; a timestamp is a number, ordered as the         *)
(* fixed-format strings of the program are ordered by comparison.          *)
(***************************************************************************)
EXTENDS Integers, Sequences, FiniteSets, TLC

\* ---------------------------------------------------------------- bounds
\* Clock horizon of the gate specifications.
MaxTime == 22
\* Clock horizon of the storage specification (the clock moves in steps there).
StoreMaxTime == 5
\* Largest limit a query is called with (0 stands for "no limit").
MaxLimit == 2
\* Longest cached list the sorting specification starts from.
MaxSortLen == 3
\* Latest timestamp of a record of the sorting specification.
MaxStamp == 2
\* Greatest number in a cell of a frame handed to vectorize_payload.
MaxCell == 2
\* Records fetched by one topology query on given records.
MaxTopoLen == 2
\* Records handed to one aggregation.
MaxAggLen == 3
\* Logs of a detection run that is followed to its persist step.
MaxRunLogs == 2
\* Logs one detection run of the model processes.
MaxLogs == 3
\* How far outside [0, 1] the confidences handed to the severity index go,
\* in units of 1/ConfScale.
MaxOver == 20
\* Longest list handed to update_fallback_cache.
MaxWriteLen == 1
\* Most alerts one detection run produces.
MaxBatch == 1
\* Last id the detection runs of the model generate.
LastRunId == 4
\* Most records the file or the collection holds in the model.
MaxRecords == 3

\* Clock horizon of the specification of concurrent callers.
ConcMaxTime == 16
\* Number of concurrent callers of the adapter.
NCallers == 2

Callers == 1..NCallers

\* ------------------------------------------------------ program constants
\* time.time() + 10 in the except branch of _connect_primary.
COOLDOWN == 10
\* serverSelectionTimeoutMS=5000 of the adapter's MongoClient, in seconds.
CONNECT_TIMEOUT == 5
\* current_data[:200] of run_detection.
RETENTION == 200

VARIABLES
    now,                 \* time.time()
    primaryUp,           \* environment: the primary store answers
    circuit_open_until,  \* DataAccessLayer._circuit_open_until
    mongo_db,            \* DataAccessLayer._mongo_db is not None
    memory_cache,        \* DataAccessLayer._memory_cache
    jsonFile,            \* the file at JSON_DB_PATH
    collection,          \* the documents of the primary store's collection
    lastCall,            \* history: the last operation, its pre-state and result
    failAt,              \* history: time of the last handshake failure, -1 if none
                         \*   or if a connection attempt was made since
    costAt,              \* history: time the last timed-out primary operation
                         \*   ended while the primary stayed down, -1 if none
    mongo_client,        \* DataAccessLayer._mongo_client: 0 for None, else the
                         \*   caller that created the client
    pc,                  \* concurrent callers: each one's place in the code
    tstart,              \* concurrent callers: when each began its server selection
    nextId,              \* detection runs: the next fresh id (uuid.uuid4())
    detect               \* run_detection's loop (46-98): ip_alert_counts,
                         \*   threats_to_insert, the logs processed so far,
                         \*   and one call of compute_severity_index

vars == <<now, primaryUp, circuit_open_until, mongo_db, memory_cache, jsonFile,
          collection, lastCall, failAt, costAt, mongo_client, pc, tstart,
          nextId, detect>>

\* The concurrent callers' and the detection runs' own state, untouched by
\* the adapter's operations run as one step.
callerVars == <<pc, tstart, nextId, detect>>

\* ------------------------------------------------------------ data values
PyNone == [kind |-> "none", data |-> <<>>]
\* A parsed JSON value that is not a list of alert records (a dict, a list of
\* numbers, ...): sorting it by x.get('timestamp', '') raises.
PyBad == [kind |-> "bad", data |-> <<>>]
PyList(s) == [kind |-> "list", data |-> s]
\* The file: absent, unreadable (json.load raises), or holding JSON.
FileAbsent == [kind |-> "absent", data |-> <<>>]
FileCorrupt == [kind |-> "corrupt", data |-> <<>>]

Alert(i, ts, st) == [id |-> i, timestamp |-> ts, status |-> st]

\* What an operation gives its caller: a list, or an exception.
Returned(s) == [kind |-> "list", data |-> s]
Raised == [kind |-> "raise", data |-> <<>>]
\* HTTPException(status_code=404) of resolve_threat.
NotFound == [kind |-> "notfound", data |-> <<>>]

\* The sources of the generated logs and the labels the classifier predicts:
\* the four of SEVERITY_PROFILES and one it does not list.
Sources == {"10.0.0.1", "10.0.0.2"}
Categories == {"DDoS", "Brute Force", "Port Scan", "Normal", "Botnet"}

\* run_detection before its first log, and no severity computed: no source
\* counted, no threat collected.  sev is -1 until compute_severity_index
\* has been applied to (c, cat); tie is the side on which the float product
\* falls when its decimal value is exactly halfway between two hundredths.
\* n counts the logs processed.  frame is the one-row frame handed to
\* vectorize_payload, a function from its columns to their cells, vector
\* what the call returned (<<>> before the call) and given, history, the
\* frame as it was handed over.  records are the alert records an
\* aggregation or a topology query is handed, rows what the aggregation
\* returned once aggregated is TRUE, topology the nodes the topology query
\* returned (<<>> before it).  History: log is the classification of the
\* last log of the run, skipped the number of logs of the run whose
\* classification raised, stored the threats earlier runs collected.
NoLog == [raised |-> FALSE, prediction |-> "none"]
DetectIdle ==
    [c |-> 0, cat |-> "Normal", tie |-> FALSE, sev |-> -1,
     counts |-> [s \in Sources |-> 0], threats |-> <<>>, n |-> 0,
     log |-> NoLog, skipped |-> 0, stored |-> <<>>,
     given |-> <<>>, frame |-> <<>>, vector |-> <<>>,
     records |-> <<>>, aggregated |-> FALSE, rows |-> <<>>,
     topology |-> <<>>]

\* Records that exist before any detection run of the model, and the first id
\* a run generates.
OldAlert1 == Alert(1, 0, "Active")
OldAlert2 == Alert(2, CONNECT_TIMEOUT, "Active")
FirstRunId == 3

\* ------------------------------------------------- _slice_and_sort (117-124)
\* sorted(data, key=timestamp, reverse=True): Python's sort is stable, and
\* reverse=True keeps the original order of records with equal keys.  The
\* result is built by inserting each record, in order, after every record
\* whose timestamp is greater or equal.
RECURSIVE InsertDesc(_, _)
InsertDesc(s, r) ==
    IF s = <<>> THEN <<r>>
    ELSE IF Head(s).timestamp >= r.timestamp
         THEN <<Head(s)>> \o InsertDesc(Tail(s), r)
         ELSE <<r>> \o s

RECURSIVE SortedDesc(_)
SortedDesc(s) ==
    IF s = <<>> THEN <<>>
    ELSE InsertDesc(SortedDesc(SubSeq(s, 1, Len(s) - 1)), s[Len(s)])

Take(s, n) == SubSeq(s, 1, IF n < Len(s) THEN n ELSE Len(s))

\* Faulty variant: the slice is taken without sorting.
SliceUnsorted(data, limit) == IF limit # 0 THEN Take(data, limit) ELSE data

\* if limit: sorted_data[:limit]   else: sorted_data
SliceAndSort(data, limit) ==
    IF limit # 0 THEN Take(SortedDesc(data), limit) ELSE SortedDesc(data)

\* --------------------------------------------- _connect_primary (39-64)
\* Faulty variant: the deadline itself still counts as inside the cooldown.
CircuitOpenInclusive == now <= circuit_open_until

\* Circuit Breaker Check: time.time() < cls._circuit_open_until
CircuitOpen == now < circuit_open_until

\* The call enters the try block: the circuit lets it through and no handle
\* is cached.
Attempts == ~CircuitOpen /\ ~mongo_db

\* What the try block can do.  "handshake_fail": MongoClient(...) or
\* server_info() raises (the primary is down).  "ok": lines 49-58 complete.
\* "index_fail": server_info() succeeded and create_index raises, the primary
\* having gone away in between; _mongo_db was assigned at line 52.
\* "none": the try block is not entered.
ConnectOutcomes ==
    IF ~Attempts THEN {"none"}
    ELSE IF primaryUp THEN {"ok", "index_fail"}
    ELSE {"handshake_fail"}

ConnectFailed(out) == out \in {"handshake_fail", "index_fail"}

\* The clock when _connect_primary returns: a failing server selection lasts
\* serverSelectionTimeoutMS.
ConnectEnd(out) == IF ConnectFailed(out) THEN now + CONNECT_TIMEOUT ELSE now

\* Faulty variant: the cooldown is counted from the start of the attempt, and a
\* success leaves the deadline as it was.
ConnectUntilFromStart(out) ==
    IF ConnectFailed(out) THEN now + COOLDOWN ELSE circuit_open_until

\* Faulty variant: every call that does not connect pushes the deadline.
ConnectUntilOnEveryCall(out) ==
    IF out = "ok" THEN 0 ELSE ConnectEnd(out) + COOLDOWN

\* _circuit_open_until when _connect_primary returns (lines 58 and 61).
ConnectUntil(out) ==
    IF out = "ok" THEN 0
    ELSE IF ConnectFailed(out) THEN ConnectEnd(out) + COOLDOWN
    ELSE circuit_open_until

\* _mongo_db is not None when _connect_primary returns (line 52).
ConnectDb(out) == IF out \in {"ok", "index_fail"} THEN TRUE ELSE mongo_db

\* _mongo_client when _connect_primary returns (line 49); a call run as one
\* step is caller 1's.
ConnectClient(out) == IF out = "none" THEN mongo_client ELSE 1

\* The primary after the call: it is down after an index failure.
ConnectPrimaryUp(out) == IF out = "index_fail" THEN FALSE ELSE primaryUp

\* _connect_primary returns a handle (not None): lines 44, 62, 64.
ConnectHandle(out) ==
    IF CircuitOpen THEN FALSE
    ELSE IF ConnectFailed(out) THEN FALSE
    ELSE ConnectDb(out)

\* History of handshake failures across one call.
ConnectFailAt(out) ==
    IF out = "handshake_fail" THEN ConnectEnd(out)
    ELSE IF out = "none" THEN failAt
    ELSE -1

\* ------------------------------------------ _query_local_fallback (96-115)
\* Faulty variant: the file is read whenever it exists, cache or not.
FallbackAlwaysReadsFile == jsonFile.kind # "absent"

\* The file is opened and parsed: the cache is None and the path exists.
FallbackReadsFile == memory_cache.kind = "none" /\ jsonFile.kind # "absent"

\* _memory_cache when _query_local_fallback returns: line 110 assigns whatever
\* json.load returned (a list, null, or another JSON value) before sorting it.
FallbackCache ==
    IF FallbackReadsFile /\ jsonFile.kind # "corrupt"
    THEN [kind |-> jsonFile.kind, data |-> jsonFile.data]
    ELSE memory_cache

\* What _query_local_fallback gives its caller.  Line 103 is outside any try:
\* a cached value that cannot be sorted raises.  Lines 107-113 catch what
\* json.load and _slice_and_sort raise, and line 115 returns [].
FallbackResult(limit) ==
    IF memory_cache.kind = "list"
    THEN Returned(SliceAndSort(memory_cache.data, limit))
    ELSE IF memory_cache.kind = "bad" THEN Raised
    ELSE IF jsonFile.kind = "list"
    THEN Returned(SliceAndSort(jsonFile.data, limit))
    ELSE Returned(<<>>)

\* ------------------------------------------ query_security_events (71-94)
\* What the find/sort/limit on the handle can do: "ok", or "fail" (the primary
\* is down, or goes down during the read, and list(cursor) raises after the
\* server selection timeout); "none" when there is no handle.
ReadOutcomes(out) ==
    IF ~ConnectHandle(out) THEN {"none"}
    ELSE IF ConnectPrimaryUp(out) THEN {"ok", "fail"}
    ELSE {"fail"}

\* The clock when the query returns.
QueryEnd(out, rd) ==
    ConnectEnd(out) + (IF rd = "fail" THEN CONNECT_TIMEOUT ELSE 0)

\* The primary's answer: sorted by timestamp descending, limited.
PrimaryRead(limit) == Returned(SliceAndSort(collection, limit))

QueryResult(limit, rd) ==
    IF rd = "ok" THEN PrimaryRead(limit) ELSE FallbackResult(limit)

\* The call paid a server selection timeout against the primary.
Costly(out, rd) == ConnectFailed(out) \/ rd = "fail"

\* ---------------------------------------------------------------- history
NoResult == Returned(<<>>)

Call(op, out, rd, io, limit, arg, res) ==
    [op |-> op, start |-> now, out |-> out, rd |-> rd, io |-> io,
     limit |-> limit,
     attempted |-> (out # "none"),
     handle |-> (op \in {"connect", "query"} /\ ConnectHandle(out)),
     upBefore |-> primaryUp, upAfter |-> (ConnectPrimaryUp(out) /\ rd # "fail"),
     untilBefore |-> circuit_open_until, failBefore |-> failAt,
     costBefore |-> costAt, costly |-> Costly(out, rd),
     cacheBefore |-> memory_cache, fileBefore |-> jsonFile,
     readFile |-> (op = "query" /\ rd # "ok" /\ FallbackReadsFile),
     arg |-> arg, result |-> res]

\* ---------------------------------------------------------------- actions
\* get_db_handle() (66-69): a bare call of _connect_primary.
GetDbHandle(horizon) ==
    \E out \in ConnectOutcomes :
        /\ ConnectEnd(out) <= horizon
        /\ now' = ConnectEnd(out)
        /\ circuit_open_until' = ConnectUntil(out)
        /\ mongo_db' = ConnectDb(out)
        /\ mongo_client' = ConnectClient(out)
        /\ primaryUp' = ConnectPrimaryUp(out)
        /\ failAt' = ConnectFailAt(out)
        /\ costAt' = IF Costly(out, "none") THEN ConnectEnd(out) ELSE costAt
        /\ lastCall' = Call("connect", out, "none", "none", 0, <<>>, NoResult)
        /\ UNCHANGED <<memory_cache, jsonFile, collection, callerVars>>

\* query_security_events(limit) (71-94) with everything it calls.
Query(horizon) ==
    \E limit \in 0..MaxLimit, out \in ConnectOutcomes :
      \E rd \in ReadOutcomes(out) :
        /\ QueryEnd(out, rd) <= horizon
        /\ now' = QueryEnd(out, rd)
        /\ circuit_open_until' = ConnectUntil(out)
        /\ mongo_db' = ConnectDb(out)
        /\ mongo_client' = ConnectClient(out)
        /\ primaryUp' = (ConnectPrimaryUp(out) /\ rd # "fail")
        /\ failAt' = ConnectFailAt(out)
        /\ costAt' = IF Costly(out, rd) THEN QueryEnd(out, rd) ELSE costAt
        /\ memory_cache' = IF rd = "ok" THEN memory_cache ELSE FallbackCache
        /\ lastCall' = Call("query", out, rd, "none", limit, <<>>,
                          QueryResult(limit, rd))
        /\ UNCHANGED <<jsonFile, collection, callerVars>>

\* Environment: time passes.
Tick(step, horizon) ==
    /\ now + step <= horizon
    /\ now' = now + step
    /\ UNCHANGED <<primaryUp, circuit_open_until, mongo_db, memory_cache,
                   jsonFile, collection, lastCall, failAt, costAt,
                   mongo_client, callerVars>>

\* Environment: the primary store goes down.
PrimaryFails ==
    /\ primaryUp
    /\ primaryUp' = FALSE
    /\ UNCHANGED <<now, circuit_open_until, mongo_db, memory_cache, jsonFile,
                   collection, lastCall, failAt, costAt, mongo_client,
                   callerVars>>

\* Environment: the primary store comes back.
PrimaryRecovers ==
    /\ ~primaryUp
    /\ primaryUp' = TRUE
    /\ costAt' = -1
    /\ UNCHANGED <<now, circuit_open_until, mongo_db, memory_cache, jsonFile,
                   collection, lastCall, failAt, mongo_client, callerVars>>

\* ------------------------------------------------- the gate specification
\* Class attributes as declared at lines 28-32; the store contents are fixed.
GateFile == PyList(<<Alert(1, 1, "Active"), Alert(2, 2, "Active")>>)

InitCall ==
    [op |-> "init", start |-> 0, out |-> "none", rd |-> "none",
     io |-> "none", limit |-> 0,
     attempted |-> FALSE, handle |-> FALSE, upBefore |-> FALSE,
     upAfter |-> FALSE, untilBefore |-> 0,
     failBefore |-> -1, costBefore |-> -1, costly |-> FALSE,
     cacheBefore |-> PyNone, fileBefore |-> FileAbsent, readFile |-> FALSE,
     arg |-> <<>>, result |-> NoResult]

GateInit ==
    /\ now = 0
    /\ primaryUp \in BOOLEAN
    /\ circuit_open_until = 0
    /\ mongo_db = FALSE
    /\ memory_cache = PyNone
    /\ jsonFile \in {FileAbsent, GateFile}
    /\ collection = <<Alert(3, 1, "Active")>>
    /\ lastCall = InitCall
    /\ failAt = -1
    /\ costAt = -1
    /\ mongo_client = 0
    /\ pc = [t \in Callers |-> "idle"]
    /\ tstart = [t \in Callers |-> 0]
    /\ nextId = FirstRunId
    /\ detect = DetectIdle

GateNext ==
    \/ GetDbHandle(MaxTime)
    \/ Query(MaxTime)
    \/ Tick(1, MaxTime)
    \/ PrimaryFails
    \/ PrimaryRecovers

SpecGate == GateInit /\ [][GateNext]_vars

\* ------------------------------------------ update_fallback_cache (126-137)
\* What the write of the file can do.  "skip": the path does not exist and
\* line 132 skips the write.  "ok": the dump completes.  "open_fail": open()
\* raises and the file is as it was.  "dump_fail": json.dump raises after
\* open(..., 'w') truncated the file.  Lines 136-137 catch both.
WriteOutcomes ==
    IF jsonFile.kind = "absent" THEN {"skip"}
    ELSE {"ok", "open_fail", "dump_fail"}

\* Line 130: cls._memory_cache = data.
WriteCache(data) == PyList(data)

\* The file when update_fallback_cache returns.
WriteFile(data, io) ==
    IF io = "ok" THEN PyList(data)
    ELSE IF io = "dump_fail" THEN FileCorrupt
    ELSE jsonFile

\* The lists a caller hands to update_fallback_cache.
WriteRecs == {OldAlert1, Alert(2, CONNECT_TIMEOUT, "Resolved")}
WriteInputs == UNION {[1..n -> WriteRecs] : n \in 0..MaxWriteLen}

UpdateFallbackCache ==
    \E data \in WriteInputs, io \in WriteOutcomes :
        /\ memory_cache' = WriteCache(data)
        /\ jsonFile' = WriteFile(data, io)
        /\ lastCall' = Call("write", "none", "none", io, 0, data, NoResult)
        /\ UNCHANGED <<now, primaryUp, circuit_open_until, mongo_db,
                       mongo_client, collection, failAt, costAt, callerVars>>

\* ----------------------------- run_detection, persist step (32-41, 100-124)
\* The alerts of one run: fresh ids, stamped with the generator's clock.
RunBatch(n) == [k \in 1..n |-> Alert(nextId + k - 1, now, "Active")]

\* collection.insert_many (101-103).  "skip": nothing to insert, or
\* mongo_available is False (the setup at 34-41 failed).  "ok": inserted.
\* "fail": the primary went away after the setup and insert_many raises,
\* which nothing catches.
InsertOutcomes(n) ==
    IF n = 0 \/ ~primaryUp THEN {"skip"} ELSE {"ok", "fail"}

\* current_data as read at 106-112: [] unless the file parses.
RunCurrent ==
    IF jsonFile.kind \in {"absent", "corrupt"} THEN PyList(<<>>)
    ELSE [kind |-> jsonFile.kind, data |-> jsonFile.data]

\* The run raises: insert_many raised; or line 115 adds a list to a parsed
\* value that is no list; or insert_many added an ObjectId '_id' to every
\* dict of threats_to_insert, which json.dump at line 120 cannot serialize.
RunRaises(n, ins) ==
    n > 0 /\ (ins \in {"ok", "fail"} \/ RunCurrent.kind # "list")

\* Faulty variant: the file is written whether threats were collected or not.
RunFileAlways(n, ins) ==
    IF ins = "fail" \/ RunCurrent.kind # "list" THEN jsonFile
    ELSE IF ins = "ok" THEN FileCorrupt
    ELSE PyList(Take(RunBatch(n) \o RunCurrent.data, RETENTION))

\* The file after the run: lines 115-120 write threats_to_insert +
\* current_data, cut to 200; a dump that raises leaves the file truncated
\* by open(..., 'w').
RunFile(n, ins) ==
    IF n = 0 \/ ins = "fail" \/ RunCurrent.kind # "list" THEN jsonFile
    ELSE IF ins = "ok" THEN FileCorrupt
    ELSE PyList(Take(RunBatch(n) \o RunCurrent.data, RETENTION))

RunCollection(n, ins) ==
    IF ins = "ok" THEN collection \o RunBatch(n) ELSE collection

RunDetection ==
    \E n \in 0..MaxBatch :
      \E ins \in InsertOutcomes(n) :
        /\ nextId + n - 1 <= LastRunId
        /\ Len(collection) + n <= MaxRecords
        /\ (jsonFile.kind = "list" => Len(jsonFile.data) + n <= MaxRecords)
        /\ nextId' = nextId + n
        /\ collection' = RunCollection(n, ins)
        /\ jsonFile' = RunFile(n, ins)
        /\ primaryUp' = (primaryUp /\ ins # "fail")
        /\ lastCall' = Call("run", "none", "none", ins, 0, RunBatch(n),
                            IF RunRaises(n, ins) THEN Raised ELSE NoResult)
        /\ UNCHANGED <<now, circuit_open_until, mongo_db, mongo_client,
                       memory_cache, failAt, costAt, pc, tstart, detect>>

\* -------------------------------------------- resolve_threat (main.py 57-80)
\* The position of the first record with the id, 0 if there is none.
IndexOfId(s, id) ==
    IF \E i \in 1..Len(s) : s[i].id = id
    THEN CHOOSE i \in 1..Len(s) :
            s[i].id = id /\ \A j \in 1..(i - 1) : s[j].id # id
    ELSE 0

\* Faulty variant: the status of the record is toggled.
ResolvedListToggles(s, id) ==
    [i \in 1..Len(s) |->
        IF i = IndexOfId(s, id)
        THEN [s[i] EXCEPT !.status = IF @ = "Resolved" THEN "Active" ELSE "Resolved"]
        ELSE s[i]]

\* Faulty variant: the record is resolved and moved to the front of the list.
ResolvedListToFront(s, id) ==
    LET k == IndexOfId(s, id)
    IN  IF k = 0 THEN s
        ELSE <<[s[k] EXCEPT !.status = "Resolved"]>>
                \o [i \in 1..(Len(s) - 1) |-> IF i < k THEN s[i] ELSE s[i + 1]]

ResolvedList(s, id) ==
    [i \in 1..Len(s) |->
        IF i = IndexOfId(s, id) THEN [s[i] EXCEPT !.status = "Resolved"]
        ELSE s[i]]

ResolveFile(id) ==
    IF jsonFile.kind = "list" /\ IndexOfId(jsonFile.data, id) # 0
    THEN PyList(ResolvedList(jsonFile.data, id))
    ELSE jsonFile

\* The updated record; 404 when the file is absent or holds no such id; an
\* uncaught exception when json.load raises or the parsed value is no list
\* of records.
ResolveResult(id) ==
    IF jsonFile.kind = "absent" THEN NotFound
    ELSE IF jsonFile.kind # "list" THEN Raised
    ELSE IF IndexOfId(jsonFile.data, id) = 0 THEN NotFound
    ELSE Returned(<<ResolvedList(jsonFile.data, id)[IndexOfId(jsonFile.data, id)]>>)

ResolveThreat ==
    \E id \in 1..LastRunId :
        /\ jsonFile' = ResolveFile(id)
        /\ lastCall' = Call("resolve", "none", "none", "none", id, <<>>,
                            ResolveResult(id))
        /\ UNCHANGED <<now, primaryUp, circuit_open_until, mongo_db,
                       mongo_client, memory_cache, collection, failAt, costAt,
                       callerVars>>

\* --------------------------------------------- the storage specification
\* The file before the first operation: absent, unreadable, JSON null, a JSON
\* object, or a list of records.
FileNull == [kind |-> "none", data |-> <<>>]
FileBad == [kind |-> "bad", data |-> <<>>]
InitFiles ==
    {FileAbsent, FileCorrupt, FileNull, FileBad, PyList(<<>>),
     PyList(<<OldAlert1, OldAlert2>>)}

Init ==
    /\ now = 0
    /\ primaryUp \in BOOLEAN
    /\ circuit_open_until = 0
    /\ mongo_db = FALSE
    /\ memory_cache = PyNone
    /\ jsonFile \in InitFiles
    /\ collection = <<>>
    /\ lastCall = InitCall
    /\ failAt = -1
    /\ costAt = -1
    /\ mongo_client = 0
    /\ pc = [t \in Callers |-> "idle"]
    /\ tstart = [t \in Callers |-> 0]
    /\ nextId = FirstRunId
    /\ detect = DetectIdle

Next ==
    \/ GetDbHandle(StoreMaxTime)
    \/ Query(StoreMaxTime)
    \/ UpdateFallbackCache
    \/ RunDetection
    \/ ResolveThreat
    \/ Tick(CONNECT_TIMEOUT, StoreMaxTime)
    \/ PrimaryFails
    \/ PrimaryRecovers

Spec == Init /\ [][Next]_vars

\* ------------------------------------------- the adapter specification
\* The operations of DataAccessLayer alone: the file changes only through
\* update_fallback_cache.
AdapterNext ==
    \/ GetDbHandle(StoreMaxTime)
    \/ Query(StoreMaxTime)
    \/ UpdateFallbackCache
    \/ Tick(CONNECT_TIMEOUT, StoreMaxTime)
    \/ PrimaryFails
    \/ PrimaryRecovers

SpecAdapter == Init /\ [][AdapterNext]_vars

\* ------------------------------------------- the sorting specification
\* _slice_and_sort through a query on the fallback path: the primary is down
\* and the cache holds any list of up to MaxSortLen records, timestamps
\* repeated or not, in any order.
SortRecs == {Alert(i, ts, "Active") : i \in 1..(FirstRunId - 1), ts \in 0..MaxStamp}
SortInputs == UNION {[1..n -> SortRecs] : n \in 0..MaxSortLen}

SortInit ==
    /\ now = 0
    /\ primaryUp = FALSE
    /\ circuit_open_until = 0
    /\ mongo_db = FALSE
    /\ memory_cache \in {PyList(d) : d \in SortInputs}
    /\ jsonFile = FileAbsent
    /\ collection = <<>>
    /\ lastCall = InitCall
    /\ failAt = -1
    /\ costAt = -1
    /\ mongo_client = 0
    /\ pc = [t \in Callers |-> "idle"]
    /\ tstart = [t \in Callers |-> 0]
    /\ nextId = FirstRunId
    /\ detect = DetectIdle

SortNext ==
    \/ Query(StoreMaxTime)
    \/ Tick(CONNECT_TIMEOUT, StoreMaxTime)

SpecSort == SortInit /\ [][SortNext]_vars

\* ------------------------------------------- the resolve specification
\* resolve_threat alone, over a file that is absent, unreadable, no list, or
\* any list of up to MaxSortLen records with distinct ids.
DistinctIds(d) == \A i, j \in 1..Len(d) : i # j => d[i].id # d[j].id
ResolveInputs == {d \in SortInputs : DistinctIds(d)}

ResolveInit ==
    /\ now = 0
    /\ primaryUp = FALSE
    /\ circuit_open_until = 0
    /\ mongo_db = FALSE
    /\ memory_cache = PyNone
    /\ jsonFile \in InitFiles \cup {PyList(d) : d \in ResolveInputs}
    /\ collection = <<>>
    /\ lastCall = InitCall
    /\ failAt = -1
    /\ costAt = -1
    /\ mongo_client = 0
    /\ pc = [t \in Callers |-> "idle"]
    /\ tstart = [t \in Callers |-> 0]
    /\ nextId = FirstRunId
    /\ detect = DetectIdle

ResolveNext ==
    \/ ResolveThreat
    \/ Tick(CONNECT_TIMEOUT, StoreMaxTime)

SpecResolve == ResolveInit /\ [][ResolveNext]_vars

\* ------------------------------------------- the lifecycle specification
\* block_threat (main.py 133-136): a message is returned, nothing is stored.
Blocked == [kind |-> "blocked", data |-> <<>>]

BlockThreat ==
    \E id \in 1..LastRunId :
        /\ lastCall' = Call("block", "none", "none", "none", id, <<>>, Blocked)
        /\ UNCHANGED <<now, primaryUp, circuit_open_until, mongo_db,
                       mongo_client, memory_cache, jsonFile, collection,
                       failAt, costAt, callerVars>>

\* The operations on stored alerts: detection runs create them, resolve and
\* block are applied to them; the primary is reachable or not.
LifecycleInit ==
    /\ now = 0
    /\ primaryUp \in BOOLEAN
    /\ circuit_open_until = 0
    /\ mongo_db = FALSE
    /\ memory_cache = PyNone
    /\ jsonFile \in InitFiles \cup {PyList(d) : d \in ResolveInputs}
    /\ collection = <<>>
    /\ lastCall = InitCall
    /\ failAt = -1
    /\ costAt = -1
    /\ mongo_client = 0
    /\ pc = [t \in Callers |-> "idle"]
    /\ tstart = [t \in Callers |-> 0]
    /\ nextId = FirstRunId
    /\ detect = DetectIdle

LifecycleNext ==
    \/ ResolveThreat
    \/ BlockThreat
    \/ RunDetection

SpecLifecycle == LifecycleInit /\ [][LifecycleNext]_vars

\* ------------------------------- compute_severity_index (detector.py 36-54)
\* A confidence c stands for the float c / ConfScale; a score s stands for
\* s / 1000 points, so a score rounded to 2 decimals is a multiple of 10.
ConfScale == 10000
FullScore == 100000

\* Faulty variant: a category missing from the table weighs as Normal does.
ImpactWeightDefaultsLow(category_label) ==
    CASE category_label = "DDoS" -> 9
      [] category_label = "Brute Force" -> 10
      [] category_label = "Port Scan" -> 6
      [] OTHER -> 1

\* SEVERITY_PROFILES.get(category_label, 0.5), in tenths.
ImpactWeight(category_label) ==
    CASE category_label = "DDoS" -> 9
      [] category_label = "Brute Force" -> 10
      [] category_label = "Port Scan" -> 6
      [] category_label = "Normal" -> 1
      [] OTHER -> 5

\* confidence_score * weight_factor * 100.0: (c / 10^4) * (w / 10) * 100
\* points is c * w thousandths of a point.
RawScore(c, category_label) == c * ImpactWeight(category_label)

\* min(max(raw_score, 0.0), 100.0)
ClampScore(x) == IF x < 0 THEN 0 ELSE IF x > FullScore THEN FullScore ELSE x

\* The decimal value of x lies exactly halfway between two hundredths.
IsTie(x) == x % 10 = 5

\* round(x, 2) for x >= 0.  Off a tie the float and the decimal value round
\* alike; on a tie the float product lies on either side of the decimal
\* value, and up tells on which.
Round2(x, up) ==
    IF x % 10 > 5 \/ (IsTie(x) /\ up) THEN x - (x % 10) + 10
    ELSE x - (x % 10)

\* Faulty variant: the probability of the other classes is scored.
SeverityOfOthers(c, category_label, up) ==
    Round2(ClampScore(RawScore(ConfScale - c, category_label)), up)

compute_severity_index(c, category_label, up) ==
    Round2(ClampScore(RawScore(c, category_label)), up)

\* The sides a tie can fall on for this input: both on a tie, else one.
TieSides(c, category_label) ==
    IF IsTie(ClampScore(RawScore(c, category_label))) THEN BOOLEAN ELSE {FALSE}

\* One call of compute_severity_index on the input drawn at the start.
ComputeSeverityIndex ==
    /\ detect.sev = -1
    /\ detect' = [detect EXCEPT
                    !.sev = compute_severity_index(detect.c, detect.cat, detect.tie)]
    /\ UNCHANGED <<now, primaryUp, circuit_open_until, mongo_db, memory_cache,
                   jsonFile, collection, lastCall, failAt, costAt,
                   mongo_client, pc, tstart, nextId>>

\* The confidences handed to the severity index: every multiple of
\* 1/ConfScale in [0, 1] and some on either side of it.
SeverityInputs == (0 - MaxOver)..(ConfScale + MaxOver)

SeverityInit ==
    /\ now = 0
    /\ primaryUp = FALSE
    /\ circuit_open_until = 0
    /\ mongo_db = FALSE
    /\ memory_cache = PyNone
    /\ jsonFile = FileAbsent
    /\ collection = <<>>
    /\ lastCall = InitCall
    /\ failAt = -1
    /\ costAt = -1
    /\ mongo_client = 0
    /\ pc = [t \in Callers |-> "idle"]
    /\ tstart = [t \in Callers |-> 0]
    /\ nextId = FirstRunId
    /\ \E c \in SeverityInputs, cat \in Categories :
         \E up \in TieSides(c, cat) :
            detect = [DetectIdle EXCEPT !.c = c, !.cat = cat, !.tie = up]

SeverityNext == ComputeSeverityIndex

SpecSeverity == SeverityInit /\ [][SeverityNext]_vars

\* ---------------------------------- run_detection, the loop (lines 46-98)
\* The confidences the classifier gives in the loop of the model: a third,
\* a half and the whole.
LoopConfidences == {ConfScale \div 3, ConfScale \div 2, ConfScale}

RECURSIVE EscalatedCompounding(_, _)
\* Faulty variant: the escalation is applied once more for every earlier
\* alert of the source.
EscalatedCompounding(risk, count) ==
    IF count <= 1 THEN risk
    ELSE IF (risk * 12) \div 10 > FullScore
         THEN FullScore
         ELSE EscalatedCompounding((risk * 12) \div 10, count - 1)

\* Lines 73-76: risk = min(risk * 1.2, 100.0) when the source's count is
\* above 1.  risk is a multiple of 10 thousandths, so risk * 1.2 is the
\* whole number of thousandths (risk * 12) / 10; it is not rounded again.
Escalated(risk, count) ==
    IF count > 1
    THEN (IF (risk * 12) \div 10 > FullScore THEN FullScore ELSE (risk * 12) \div 10)
    ELSE risk

\* The threat of lines 81-94; base_score is history, the value of
\* calculate_risk_score at line 66 before the escalation.
Threat(src, prediction, confidence, base, count) ==
    [source_ip |-> src, predicted_label |-> prediction,
     confidence |-> confidence, base_score |-> base,
     risk_score |-> Escalated(base, count),
     escalation_flag |-> (count > 1), status |-> "Active"]

\* Faulty variant: the test on the baseline category is missing.
ProducesThreatAlways(raises, prediction) == ~raises

\* Line 68, inside the try of line 59: a threat is assembled when nothing
\* raised and the prediction is not 'Normal'.
ProducesThreat(raises, prediction) == ~raises /\ prediction # "Normal"

\* One pass of the loop body (lines 49-98): a log of some source is
\* classified; a prediction that raises is reported and the log skipped
\* (97-98); a Normal prediction yields nothing; any other one counts for
\* its source and appends a threat.
ProcessLog ==
    /\ detect.n < MaxLogs
    /\ \E src \in Sources, prediction \in Categories, confidence \in LoopConfidences,
          raises \in BOOLEAN :
         \E up \in TieSides(confidence, prediction) :
            LET risk == compute_severity_index(confidence, prediction, up)
                count == detect.counts[src] + 1
            IN  detect' =
                  IF raises
                  THEN [detect EXCEPT !.n = detect.n + 1,
                                      !.skipped = detect.skipped + 1,
                                      !.log = [raised |-> TRUE, prediction |-> "none"]]
                  ELSE IF ~ProducesThreat(raises, prediction)
                  THEN [detect EXCEPT !.n = detect.n + 1,
                                      !.log = [raised |-> FALSE, prediction |-> prediction]]
                  ELSE [detect EXCEPT
                          !.n = detect.n + 1,
                          !.log = [raised |-> FALSE, prediction |-> prediction],
                          !.counts[src] = count,
                          !.threats = Append(detect.threats,
                                 Threat(src, prediction, confidence, risk, count))]
    /\ UNCHANGED <<now, primaryUp, circuit_open_until, mongo_db, memory_cache,
                   jsonFile, collection, lastCall, failAt, costAt,
                   mongo_client, pc, tstart, nextId>>

DetectInit ==
    /\ now = 0
    /\ primaryUp = FALSE
    /\ circuit_open_until = 0
    /\ mongo_db = FALSE
    /\ memory_cache = PyNone
    /\ jsonFile = FileAbsent
    /\ collection = <<>>
    /\ lastCall = InitCall
    /\ failAt = -1
    /\ costAt = -1
    /\ mongo_client = 0
    /\ pc = [t \in Callers |-> "idle"]
    /\ tstart = [t \in Callers |-> 0]
    /\ nextId = FirstRunId
    /\ detect = DetectIdle

DetectNext == ProcessLog

SpecDetect == DetectInit /\ [][DetectNext]_vars

\* ------------------------------------- run_detection, one run after another
\* Faulty variant: the counters live outside the function and survive a run.
RunCountsKept(counts) == counts

\* Line 46: ip_alert_counts = {} at the start of every call.
RunCounts(counts) == [s \in Sources |-> 0]

\* A further call of run_detection (lines 45-46): threats_to_insert and
\* ip_alert_counts start empty; what the run before collected is history.
\* The model follows one run after a run that collected threats.
StartRun ==
    /\ detect.stored = <<>>
    /\ detect.threats # <<>>
    /\ detect' = [detect EXCEPT
                    !.stored = detect.threats,
                    !.threats = <<>>,
                    !.counts = RunCounts(detect.counts),
                    !.skipped = 0,
                    !.log = NoLog]
    /\ UNCHANGED <<now, primaryUp, circuit_open_until, mongo_db, memory_cache,
                   jsonFile, collection, lastCall, failAt, costAt,
                   mongo_client, pc, tstart, nextId>>

RunsNext ==
    \/ ProcessLog
    \/ StartRun

SpecRuns == DetectInit /\ [][RunsNext]_vars

\* ------------------------------- run_detection, the loop and the persist
\* Lines 100-124 after the loop: the persist step on the threats collected.
PersistThreats ==
    /\ lastCall.op # "run"
    /\ RunDetection
    /\ Len(lastCall'.arg) = Len(detect.threats)

PipelineNext ==
    \/ (lastCall.op # "run" /\ ProcessLog)
    \/ PersistThreats

SpecPipeline == Init /\ [][PipelineNext]_vars

\* The same run over at most MaxRunLogs logs.
PersistNext ==
    \/ (lastCall.op # "run" /\ detect.n < MaxRunLogs /\ ProcessLog)
    \/ PersistThreats

SpecPersist == Init /\ [][PersistNext]_vars

\* ------------------------------------ vectorize_payload (detector.py 63-94)
\* A cell is a number num / den; the missing value NaN is 0 / 0.
Cell(n) == [num |-> n, den |-> 1]
NaN == [num |-> 0, den |-> 0]

REQUIRED_FEATURES ==
    <<"dest_port", "flow_duration", "total_fwd_packets", "total_l_fwd_packets",
      "packet_size">>

\* The columns a frame of the model can have: the required ones and one more.
FrameColumns == {REQUIRED_FEATURES[i] : i \in 1..Len(REQUIRED_FEATURES)} \cup {"protocol"}

\* Faulty variant: missing values are left as they are.
FillNaOmitted(x) == x

\* fillna(0) on one cell (line 94).
FillNa(x) == IF x = NaN THEN Cell(0) ELSE x

\* Series.replace(0, 1) on one cell (line 87).
ReplaceZero(x) == IF x = Cell(0) THEN Cell(1) ELSE x

\* a / b on cells of denominator 1, b not 0: NaN if either is missing.
Quotient(a, b) ==
    IF a = NaN \/ b = NaN THEN NaN ELSE [num |-> a.num, den |-> b.num]

\* vector[feature] = x: the column is added to the copy.
WithColumn(v, feature, x) ==
    [col \in DOMAIN v \cup {feature} |-> IF col = feature THEN x ELSE v[col]]

\* Lines 81-91 for one feature.
AddFeature(v, feature) ==
    IF feature \in DOMAIN v THEN v
    ELSE IF feature = "packet_size"
         THEN IF {"total_l_fwd_packets", "total_fwd_packets"} \subseteq DOMAIN v
              THEN WithColumn(v, feature,
                      Quotient(v["total_l_fwd_packets"],
                               ReplaceZero(v["total_fwd_packets"])))
              ELSE WithColumn(v, feature, Cell(0))
         ELSE WithColumn(v, feature, Cell(0))

\* The loop of line 80 over the first k required features, in their order.
RECURSIVE Imputed(_, _)
Imputed(v, k) ==
    IF k = 0 THEN v ELSE AddFeature(Imputed(v, k - 1), REQUIRED_FEATURES[k])

\* Line 94: the required columns, in their order, missing values filled.
vectorize_payload(telemetry_frame) ==
    LET v == Imputed(telemetry_frame, Len(REQUIRED_FEATURES))
    IN  [i \in 1..Len(REQUIRED_FEATURES) |->
            [name |-> REQUIRED_FEATURES[i], value |-> FillNa(v[REQUIRED_FEATURES[i]])]]

\* Line 78 copies the frame and the function assigns to the copy only: the
\* caller's frame after the call.
FrameAfterCall(telemetry_frame) == telemetry_frame

VectorizePayload ==
    /\ detect.vector = <<>>
    /\ detect' = [detect EXCEPT !.vector = vectorize_payload(detect.frame),
                                !.frame = FrameAfterCall(detect.frame)]
    /\ UNCHANGED <<now, primaryUp, circuit_open_until, mongo_db, memory_cache,
                   jsonFile, collection, lastCall, failAt, costAt,
                   mongo_client, pc, tstart, nextId>>

\* The frames: any subset of the columns, any cell missing or a number.
FrameCells == {NaN} \cup {Cell(n) : n \in 0..MaxCell}
Frames == UNION {[cols -> FrameCells] : cols \in SUBSET FrameColumns}

VectorizeInit ==
    /\ now = 0
    /\ primaryUp = FALSE
    /\ circuit_open_until = 0
    /\ mongo_db = FALSE
    /\ memory_cache = PyNone
    /\ jsonFile = FileAbsent
    /\ collection = <<>>
    /\ lastCall = InitCall
    /\ failAt = -1
    /\ costAt = -1
    /\ mongo_client = 0
    /\ pc = [t \in Callers |-> "idle"]
    /\ tstart = [t \in Callers |-> 0]
    /\ nextId = FirstRunId
    /\ \E f \in Frames : detect = [DetectIdle EXCEPT !.given = f, !.frame = f]

VectorizeNext == VectorizePayload

SpecVectorize == VectorizeInit /\ [][VectorizeNext]_vars

\* -------------------------------- get_aggregated_threats (main.py 228-263)
\* An alert record is a function from its field names to their values:
\* timestamps are numbered in their lexicographic order, confidences are in
\* 1/ConfScale, risk scores in thousandths of a point.
\* t.get(field, default)
Get(t, field, default) == IF field \in DOMAIN t THEN t[field] ELSE default

\* Faulty variant: the records are grouped by their source alone.
AggKeyBySource(t) == <<t.source_ip, "DDoS">>

\* key = (t['source_ip'], t['predicted_label'])
AggKey(t) == <<t.source_ip, t.predicted_label>>

\* The keys of the dict aggregation, in the order they are inserted.
RECURSIVE AggKeys(_)
AggKeys(threats) ==
    IF threats = <<>> THEN <<>>
    ELSE LET before == AggKeys(SubSeq(threats, 1, Len(threats) - 1))
             key == AggKey(threats[Len(threats)])
         IN  IF \E i \in 1..Len(before) : before[i] = key
             THEN before ELSE Append(before, key)

\* The records the loop adds to the entry of a key, in their order.
GroupOf(threats, key) == SelectSeq(threats, LAMBDA t : AggKey(t) = key)

\* agg["total_confidence"] += t.get('attack_probability', 0)
RECURSIVE TotalConfidence(_)
TotalConfidence(group) ==
    IF group = <<>> THEN 0
    ELSE TotalConfidence(SubSeq(group, 1, Len(group) - 1))
            + Get(group[Len(group)], "attack_probability", 0)

\* Faulty variant: the risk of the record seen last.
MaxRiskOfLatest(group) ==
    IF group = <<>> THEN 0 ELSE Get(group[Len(group)], "risk_score", 0)

\* agg["max_risk"] = max(agg["max_risk"], t.get('risk_score', 0)), from 0.
RECURSIVE MaxRisk(_)
MaxRisk(group) ==
    IF group = <<>> THEN 0
    ELSE LET before == MaxRisk(SubSeq(group, 1, Len(group) - 1))
             risk == Get(group[Len(group)], "risk_score", 0)
         IN  IF risk > before THEN risk ELSE before

\* Faulty variant: the timestamp of the record seen last.
LastSeenOfLatest(group) == group[Len(group)].timestamp

\* "last_seen": t['timestamp'] at the first record of the key, then
\* if t['timestamp'] > agg["last_seen"]: agg["last_seen"] = t['timestamp']
RECURSIVE LastSeen(_)
LastSeen(group) ==
    IF Len(group) = 1 THEN group[1].timestamp
    ELSE LET before == LastSeen(SubSeq(group, 1, Len(group) - 1))
             ts == group[Len(group)].timestamp
         IN  IF ts > before THEN ts ELSE before

\* round(total / count, 2), in hundredths.  No total of the model divided by
\* its count lies halfway between two hundredths.
RoundedMean(total, count) ==
    (2 * total + (ConfScale \div 100) * count) \div (2 * (ConfScale \div 100) * count)

\* The entry of a key after the loops of lines 234-259.
AggRow(threats, key) ==
    LET group == GroupOf(threats, key)
    IN  [source_ip |-> key[1], attack_type |-> key[2], count |-> Len(group),
         avg_confidence |-> RoundedMean(TotalConfidence(group), Len(group)),
         max_risk |-> MaxRisk(group), last_seen |-> LastSeen(group)]

\* sorted(result, key=lambda x: x['max_risk'], reverse=True): stable.
RECURSIVE InsertByRisk(_, _)
InsertByRisk(s, row) ==
    IF s = <<>> THEN <<row>>
    ELSE IF Head(s).max_risk >= row.max_risk
         THEN <<Head(s)>> \o InsertByRisk(Tail(s), row)
         ELSE <<row>> \o s

RECURSIVE SortedByRisk(_)
SortedByRisk(s) ==
    IF s = <<>> THEN <<>>
    ELSE InsertByRisk(SortedByRisk(SubSeq(s, 1, Len(s) - 1)), s[Len(s)])

get_aggregated_threats(threats) ==
    LET keys == AggKeys(threats)
    IN  SortedByRisk([i \in 1..Len(keys) |-> AggRow(threats, keys[i])])

GetAggregatedThreats ==
    /\ ~detect.aggregated
    /\ detect' = [detect EXCEPT !.aggregated = TRUE,
                                !.rows = get_aggregated_threats(detect.records)]
    /\ UNCHANGED <<now, primaryUp, circuit_open_until, mongo_db, memory_cache,
                   jsonFile, collection, lastCall, failAt, costAt,
                   mongo_client, pc, tstart, nextId>>

\* The records of the model.  Those of the detection pipeline carry their
\* confidence in the field 'confidence' (run_live_detection.py 91); the
\* others carry it in the field the aggregation reads.
AggLabels == {"DDoS", "Port Scan"}
AggStamps == {1, 2}
PipelineRecords ==
    {[source_ip |-> s, predicted_label |-> l, timestamp |-> ts,
      risk_score |-> p[1], confidence |-> p[2], status |-> "Active"] :
        s \in Sources, l \in AggLabels, ts \in AggStamps,
        p \in {<<90000, 8000>>, <<70000, 6000>>}}
OtherRecords ==
    {[source_ip |-> s, predicted_label |-> l, timestamp |-> ts,
      risk_score |-> 70000, attack_probability |-> 8000, status |-> "Active"] :
        s \in Sources, l \in AggLabels, ts \in AggStamps}
AggInputs ==
    UNION {[1..n -> PipelineRecords \cup OtherRecords] : n \in 0..MaxAggLen}

AggInit ==
    /\ now = 0
    /\ primaryUp = FALSE
    /\ circuit_open_until = 0
    /\ mongo_db = FALSE
    /\ memory_cache = PyNone
    /\ jsonFile = FileAbsent
    /\ collection = <<>>
    /\ lastCall = InitCall
    /\ failAt = -1
    /\ costAt = -1
    /\ mongo_client = 0
    /\ pc = [t \in Callers |-> "idle"]
    /\ tstart = [t \in Callers |-> 0]
    /\ nextId = FirstRunId
    /\ \E threats \in AggInputs : detect = [DetectIdle EXCEPT !.records = threats]

AggNext == GetAggregatedThreats

SpecAggregate == AggInit /\ [][AggNext]_vars

\* ------------------------ get_topology_status (topology_service.py 13-76)
STATIC_NODES ==
    <<[id |-> "firewall-1", type |-> "Firewall", ip |-> "192.168.1.1", status |-> "Healthy", x |-> 100, y |-> 50],
      [id |-> "router-core", type |-> "Router", ip |-> "10.0.0.1", status |-> "Healthy", x |-> 250, y |-> 50],
      [id |-> "switch-main", type |-> "Switch", ip |-> "10.0.0.2", status |-> "Healthy", x |-> 250, y |-> 150],
      [id |-> "server-db", type |-> "Database", ip |-> "10.0.0.5", status |-> "Healthy", x |-> 150, y |-> 250],
      [id |-> "server-app", type |-> "Server", ip |-> "10.0.0.10", status |-> "Healthy", x |-> 350, y |-> 250],
      [id |-> "workstation-1", type |-> "Client", ip |-> "10.0.0.15", status |-> "Healthy", x |-> 100, y |-> 350],
      [id |-> "workstation-2", type |-> "Client", ip |-> "10.0.0.16", status |-> "Healthy", x |-> 250, y |-> 350],
      [id |-> "workstation-3", type |-> "Client", ip |-> "10.0.0.17", status |-> "Healthy", x |-> 400, y |-> 350]>>

STATIC_LINKS ==
    <<[source |-> "firewall-1", target |-> "router-core"],
      [source |-> "router-core", target |-> "switch-main"],
      [source |-> "switch-main", target |-> "server-db"],
      [source |-> "switch-main", target |-> "server-app"],
      [source |-> "switch-main", target |-> "workstation-1"],
      [source |-> "switch-main", target |-> "workstation-2"],
      [source |-> "switch-main", target |-> "workstation-3"]>>

\* The thresholds of lines 61 and 63, in thousandths of a point.
COMPROMISED_RISK == 80000
WARNING_RISK == 60000

\* [t for t in db.fetch_data(limit=200) if t.get('status') != 'Resolved']
ActiveThreats(fetched) ==
    SelectSeq(fetched, LAMBDA t : Get(t, "status", "None") # "Resolved")

\* [t for t in active_threats if t.get('dest_ip') == node['ip']]: a record
\* without the field gives None, which no ip equals.
NodeThreats(active_threats, node) ==
    SelectSeq(active_threats, LAMBDA t : Get(t, "dest_ip", "None") = node.ip)

\* max((t.get('risk_score', 0) for t in node_threats), default=0)
NodeMaxRisk(node_threats) ==
    IF node_threats = <<>> THEN 0
    ELSE CHOOSE r \in {Get(node_threats[i], "risk_score", 0) : i \in 1..Len(node_threats)} :
            \A i \in 1..Len(node_threats) : Get(node_threats[i], "risk_score", 0) <= r

\* Lines 53-71 for one clone of a static node.
NodeStatus(node, active_threats) ==
    LET node_threats == NodeThreats(active_threats, node)
        max_risk == NodeMaxRisk(node_threats)
    IN  IF node_threats # <<>>
        THEN [threats |-> Len(node_threats),
              latest_threat |-> Get(node_threats[1], "predicted_label", "None")]
             @@ [node EXCEPT !.status =
                    IF max_risk >= COMPROMISED_RISK THEN "Compromised"
                    ELSE IF max_risk >= WARNING_RISK THEN "Warning"
                    ELSE @]
        ELSE [threats |-> 0] @@ [node EXCEPT !.status = "Healthy"]

\* The nodes returned for the records db.fetch_data gave.
get_topology_status(fetched) ==
    [i \in 1..Len(STATIC_NODES) |-> NodeStatus(STATIC_NODES[i], ActiveThreats(fetched))]

\* One query on given records: what db.fetch_data returned is drawn.
TopologyOfFetched ==
    /\ detect.topology = <<>>
    /\ detect' = [detect EXCEPT !.topology = get_topology_status(detect.records)]
    /\ UNCHANGED <<now, primaryUp, circuit_open_until, mongo_db, memory_cache,
                   jsonFile, collection, lastCall, failAt, costAt,
                   mongo_client, pc, tstart, nextId>>

\* The records of the model.  Those run_detection stores carry their target
\* in the field 'destination_ip' (run_live_detection.py 85); the others
\* carry it in 'dest_ip', as the generated logs do.  The targets are two
\* nodes and an address that is no node.
TopoTargets == {"10.0.0.10", "10.0.0.5", "172.16.0.9"}
TopoRisks == {59990, 60000, 79990, 80000, 85000}
StoredThreats ==
    {[destination_ip |-> d, risk_score |-> r, status |-> st, predicted_label |-> "DDoS"] :
        d \in TopoTargets, r \in TopoRisks, st \in {"Active", "Resolved"}}
DestIpRecords ==
    {[dest_ip |-> d, risk_score |-> r, status |-> st, predicted_label |-> "Port Scan"] :
        d \in TopoTargets, r \in TopoRisks, st \in {"Active", "Resolved"}}
TopoInputs ==
    UNION {[1..n -> StoredThreats \cup DestIpRecords] : n \in 0..MaxTopoLen}

TopoInit ==
    /\ now = 0
    /\ primaryUp = FALSE
    /\ circuit_open_until = 0
    /\ mongo_db = FALSE
    /\ memory_cache = PyNone
    /\ jsonFile = FileAbsent
    /\ collection = <<>>
    /\ lastCall = InitCall
    /\ failAt = -1
    /\ costAt = -1
    /\ mongo_client = 0
    /\ pc = [t \in Callers |-> "idle"]
    /\ tstart = [t \in Callers |-> 0]
    /\ nextId = FirstRunId
    /\ \E fetched \in TopoInputs : detect = [DetectIdle EXCEPT !.records = fetched]

TopoNext == TopologyOfFetched

SpecTopology == TopoInit /\ [][TopoNext]_vars

\* ------------------------------- the topology over the stored alerts
\* db.fetch_data(limit=200)
TOPOLOGY_LIMIT == 200

\* The record of an alert as run_detection stores it (81-94), of which the
\* storage model keeps id, timestamp and status: every alert of the storage
\* model is a DDoS on server-app with risk 85.
StoredThreat(a) ==
    [destination_ip |-> "10.0.0.10", risk_score |-> 85000, predicted_label |-> "DDoS"] @@ a

\* What get_topology_status returns for what db.fetch_data gave or raised.
TopologyResult(res) ==
    IF res.kind = "list"
    THEN [kind |-> "topology",
          data |-> get_topology_status([i \in 1..Len(res.data) |-> StoredThreat(res.data[i])]),
          links |-> STATIC_LINKS]
    ELSE res

\* get_topology_status() (36-76) with everything it calls: the query of
\* LegacyBridge.fetch_data (database.py 142-144) and the node loop.
GetTopologyStatus(horizon) ==
    \E out \in ConnectOutcomes :
      \E rd \in ReadOutcomes(out) :
        /\ QueryEnd(out, rd) <= horizon
        /\ now' = QueryEnd(out, rd)
        /\ circuit_open_until' = ConnectUntil(out)
        /\ mongo_db' = ConnectDb(out)
        /\ mongo_client' = ConnectClient(out)
        /\ primaryUp' = (ConnectPrimaryUp(out) /\ rd # "fail")
        /\ failAt' = ConnectFailAt(out)
        /\ costAt' = IF Costly(out, rd) THEN QueryEnd(out, rd) ELSE costAt
        /\ memory_cache' = IF rd = "ok" THEN memory_cache ELSE FallbackCache
        /\ lastCall' = [Call("query", out, rd, "none", TOPOLOGY_LIMIT, <<>>,
                             TopologyResult(QueryResult(TOPOLOGY_LIMIT, rd)))
                          EXCEPT !.op = "topology"]
        /\ UNCHANGED <<jsonFile, collection, callerVars>>

\* Detection runs, resolutions and topology queries on one store.
TopologyStoreNext ==
    \/ GetTopologyStatus(StoreMaxTime)
    \/ RunDetection
    \/ ResolveThreat
    \/ Tick(CONNECT_TIMEOUT, StoreMaxTime)
    \/ PrimaryFails
    \/ PrimaryRecovers

SpecTopologyStore == Init /\ [][TopologyStoreNext]_vars

\* ------------------------------- _connect_primary, one statement at a time
\* The class attributes are read and written without any lock (lines 28-64
\* hold none), so callers running in the server's worker threads interleave
\* between statements.
OtherVars ==
    <<memory_cache, jsonFile, collection, lastCall, failAt, costAt, nextId,
      detect>>

Goto(t, label) == pc' = [pc EXCEPT ![t] = label]

\* A caller enters _connect_primary.
Enter(t) ==
    /\ pc[t] = "idle"
    /\ Goto(t, "line43")
    /\ UNCHANGED <<now, primaryUp, circuit_open_until, mongo_db,
                   mongo_client, tstart, OtherVars>>

\* Line 43-44: the circuit breaker check.
Line43(t) ==
    /\ pc[t] = "line43"
    /\ Goto(t, IF CircuitOpen THEN "idle" ELSE "line46")
    /\ UNCHANGED <<now, primaryUp, circuit_open_until, mongo_db,
                   mongo_client, tstart, OtherVars>>

\* Line 46: if cls._mongo_db is None; else line 64 returns the handle.
Line46(t) ==
    /\ pc[t] = "line46"
    /\ Goto(t, IF mongo_db THEN "idle" ELSE "line49")
    /\ UNCHANGED <<now, primaryUp, circuit_open_until, mongo_db,
                   mongo_client, tstart, OtherVars>>

\* Line 49: a new client replaces cls._mongo_client; server selection begins.
Line49(t) ==
    /\ pc[t] = "line49"
    /\ mongo_client' = t
    /\ tstart' = [tstart EXCEPT ![t] = now]
    /\ Goto(t, "line50")
    /\ UNCHANGED <<now, primaryUp, circuit_open_until, mongo_db, OtherVars>>

\* Line 50: the handshake answers, or raises once the timeout has run.
Line50(t) ==
    /\ pc[t] = "line50"
    /\ \/ primaryUp /\ Goto(t, "line52")
       \/ ~primaryUp /\ now >= tstart[t] + CONNECT_TIMEOUT /\ Goto(t, "line61")
    /\ UNCHANGED <<now, primaryUp, circuit_open_until, mongo_db,
                   mongo_client, tstart, OtherVars>>

\* Line 52: cls._mongo_db is assigned.
Line52(t) ==
    /\ pc[t] = "line52"
    /\ mongo_db' = TRUE
    /\ tstart' = [tstart EXCEPT ![t] = now]
    /\ Goto(t, "line55")
    /\ UNCHANGED <<now, primaryUp, circuit_open_until, mongo_client, OtherVars>>

\* Line 55: create_index answers, or raises once the timeout has run.
Line55(t) ==
    /\ pc[t] = "line55"
    /\ \/ primaryUp /\ Goto(t, "line58")
       \/ ~primaryUp /\ now >= tstart[t] + CONNECT_TIMEOUT /\ Goto(t, "line61")
    /\ UNCHANGED <<now, primaryUp, circuit_open_until, mongo_db,
                   mongo_client, tstart, OtherVars>>

\* Line 58: the circuit is reset; line 64 returns the handle.
Line58(t) ==
    /\ pc[t] = "line58"
    /\ circuit_open_until' = 0
    /\ Goto(t, "idle")
    /\ UNCHANGED <<now, primaryUp, mongo_db, mongo_client, tstart, OtherVars>>

\* Line 61-62: the circuit is opened; None is returned.
Line61(t) ==
    /\ pc[t] = "line61"
    /\ circuit_open_until' = now + COOLDOWN
    /\ Goto(t, "idle")
    /\ UNCHANGED <<now, primaryUp, mongo_db, mongo_client, tstart, OtherVars>>

\* Callers inside the try block: each is making a real connection attempt.
InTry == {t \in Callers : pc[t] \in {"line50", "line52", "line55", "line58", "line61"}}

ConcInit ==
    /\ now = 0
    /\ primaryUp \in BOOLEAN
    /\ circuit_open_until = 0
    /\ mongo_db = FALSE
    /\ memory_cache = PyNone
    /\ jsonFile = FileAbsent
    /\ collection = <<>>
    /\ lastCall = InitCall
    /\ failAt = -1
    /\ costAt = -1
    /\ mongo_client = 0
    /\ pc = [t \in Callers |-> "idle"]
    /\ tstart = [t \in Callers |-> 0]
    /\ nextId = FirstRunId
    /\ detect = DetectIdle

ConcNext ==
    \/ \E t \in Callers :
        \/ Enter(t)
        \/ Line43(t)
        \/ Line46(t)
        \/ Line49(t)
        \/ Line50(t)
        \/ Line52(t)
        \/ Line55(t)
        \/ Line58(t)
        \/ Line61(t)
    \/ Tick(1, ConcMaxTime)
    \/ PrimaryFails
    \/ PrimaryRecovers

SpecConc == ConcInit /\ [][ConcNext]_vars

\* ------------------------------------------------------- claims on the gate
IsGateCall == lastCall.op \in {"connect", "query"}

C4_OneTimeoutPerWindow ==
    (lastCall.op = "query" /\ lastCall.costly /\ lastCall.costBefore # -1)
        => lastCall.start >= lastCall.costBefore + COOLDOWN

\* C3: while the primary is down, at most one caller at a time is inside a
\* real connection attempt, whatever the number of concurrent callers.
C3_SingleAttempt == ~primaryUp => Cardinality(InTry) <= 1

\* ---------------------------------------------------- claims on the adapter
\* The last operation was a query answered on the fallback path: the gate
\* gave no handle, or the read on the handle raised.
FallbackQuery == lastCall.op = "query" /\ lastCall.rd # "ok"

\* A query on the fallback path returns the cached list, sorted and sliced,
\* without reading the file when the cache holds a list; with no cache and a
\* file holding a list it reads the file, caches its content and returns it
\* sorted and sliced.
C5_CacheHit ==
    FallbackQuery =>
        /\ (lastCall.cacheBefore.kind = "list" =>
                /\ ~lastCall.readFile
                /\ memory_cache = lastCall.cacheBefore
                /\ lastCall.result =
                     Returned(SliceAndSort(lastCall.cacheBefore.data, lastCall.limit)))
        /\ (lastCall.cacheBefore.kind = "none" /\ lastCall.fileBefore.kind = "list" =>
                /\ lastCall.readFile
                /\ memory_cache = PyList(lastCall.fileBefore.data)
                /\ lastCall.result =
                     Returned(SliceAndSort(lastCall.fileBefore.data, lastCall.limit)))

\* C5: every query on the fallback path is answered from the cache when the
\* cache holds a list, and otherwise loads the file into the cache; and a
\* cache that holds a list keeps holding one, so the file is read at most
\* once however many fallback queries follow.
C5_LoadOnce ==
    [](C5_CacheHit) /\ [][memory_cache.kind = "list" => memory_cache'.kind = "list"]_vars

\* C5 witness: a fallback query that loaded a file whose records were not in
\* descending order, and returned them reordered.
C5_Witness ==
    /\ FallbackQuery
    /\ lastCall.cacheBefore.kind = "none"
    /\ lastCall.fileBefore.kind = "list"
    /\ Len(lastCall.fileBefore.data) = 2
    /\ lastCall.limit = 0
    /\ lastCall.result.data # lastCall.fileBefore.data
    /\ memory_cache.kind = "list"

\* C6: every query returns a sequence and never raises; with the primary
\* unavailable, nothing cached and the file absent or unreadable it returns
\* the empty sequence.
C6_QueryNeverRaises ==
    lastCall.op = "query" =>
        /\ lastCall.result.kind = "list"
        /\ (lastCall.rd # "ok" /\ lastCall.cacheBefore.kind = "none"
              /\ lastCall.fileBefore.kind \in {"absent", "corrupt"}
                => lastCall.result.data = <<>>)

\* C8: after a write whose file operations raise nothing, the cache is
\* exactly the records written and the file holds the same records, whatever
\* the cache and the file were before.
C8_WriteThrough ==
    (lastCall.op = "write" /\ lastCall.io \in {"ok", "skip"}) =>
        /\ memory_cache = PyList(lastCall.arg)
        /\ jsonFile = PyList(lastCall.arg)

\* C9: whenever the cache and the file both hold a list, they hold the same
\* records.
C9_CacheEqualsFile ==
    (memory_cache.kind = "list" /\ jsonFile.kind = "list")
        => memory_cache.data = jsonFile.data

\* The records of a list.
Records(d) == {d[i] : i \in 1..Len(d)}

\* C10: a write (an adapter write, a detection run's persist, a resolve) that
\* changes the file leaves in it no record that the cache does not hold, so a
\* reader with a populated cache never finds the file ahead of the cache.
C10_FileNeverAhead ==
    (/\ lastCall.op \in {"write", "run", "resolve"}
     /\ jsonFile # lastCall.fileBefore
     /\ jsonFile.kind = "list"
     /\ memory_cache.kind = "list")
        => Records(jsonFile.data) \subseteq Records(memory_cache.data)

\* ------------------------------------------------- claims on the writers
\* C11: a write made while a primary connection is available (the adapter
\* holds a handle and the primary answers; a detection run found the primary
\* at its setup and its insert did not fail) leaves the written records in
\* the primary collection.
C11_WriteReachesPrimary ==
    /\ (lastCall.op = "write" /\ primaryUp /\ mongo_db)
          => Records(lastCall.arg) \subseteq Records(collection)
    /\ (lastCall.op = "run" /\ lastCall.upBefore /\ lastCall.io # "fail")
          => Records(lastCall.arg) \subseteq Records(collection)

\* C12: a detection run whose insert into the primary fails still completes
\* without raising, and the file then holds the new records in front of the
\* ones it held.
C12_InsertFailureTolerated ==
    (lastCall.op = "run" /\ lastCall.io = "fail"
        /\ lastCall.fileBefore.kind \in {"list", "absent"}) =>
        /\ lastCall.result # Raised
        /\ jsonFile.kind = "list"
        /\ \A i \in 1..Len(lastCall.arg) :
              /\ i <= Len(jsonFile.data)
              /\ jsonFile.data[i] = lastCall.arg[i]

\* The ids of the alerts that completed detection runs left in the file: a
\* run's ids start at FirstRunId, and only a run that completed writes them.
PersistedIds(f) ==
    IF f.kind = "list"
    THEN {f.data[i].id : i \in {j \in 1..Len(f.data) : f.data[j].id >= FirstRunId}}
    ELSE {}

\* C13: a query without a limit that returns returns every alert that a
\* completed detection run persisted, from wherever it is served.
C13_PersistedAlertsReturned ==
    (lastCall.op = "query" /\ lastCall.limit = 0
        /\ lastCall.result.kind = "list") =>
           \A id \in PersistedIds(lastCall.fileBefore) :
              \E i \in 1..Len(lastCall.result.data) :
                  lastCall.result.data[i].id = id

\* The id is in the list.
HasId(d, id) == \E i \in 1..Len(d) : d[i].id = id

\* C14: resolving an id that the file holds marks that record Resolved in
\* the file, changes nothing else and returns the record; resolving an id
\* held neither by the file nor by the primary collection gives NotFound and
\* leaves the file as it was.
C14_ResolveOutcome ==
    lastCall.op = "resolve" =>
        LET id == lastCall.limit
            f == lastCall.fileBefore
        IN  /\ (f.kind = "list" /\ HasId(f.data, id)) =>
                /\ lastCall.result.kind = "list"
                /\ Len(lastCall.result.data) = 1
                /\ lastCall.result.data[1].id = id
                /\ lastCall.result.data[1].status = "Resolved"
                /\ jsonFile.kind = "list"
                /\ Len(jsonFile.data) = Len(f.data)
                /\ \E k \in 1..Len(f.data) :
                      /\ f.data[k].id = id
                      /\ jsonFile.data[k] = lastCall.result.data[1]
                      /\ jsonFile.data[k].timestamp = f.data[k].timestamp
                      /\ \A i \in 1..Len(f.data) :
                            i # k => jsonFile.data[i] = f.data[i]
            /\ (~(f.kind = "list" /\ HasId(f.data, id)) /\ ~HasId(collection, id)) =>
                /\ lastCall.result = NotFound
                /\ jsonFile = f

\* C15: a resolve that follows a successful resolve of the same id returns
\* the same record and leaves the file as the first call left it.
C15_ResolveIdempotent ==
    [][(/\ lastCall.op = "resolve"
        /\ lastCall.result.kind = "list"
        /\ lastCall'.op = "resolve"
        /\ lastCall'.limit = lastCall.limit)
          => (lastCall'.result = lastCall.result /\ jsonFile' = jsonFile)]_vars

\* C15 witness: a resolve of an id whose record was Resolved already, the
\* file left as it was.
C15_Witness ==
    /\ lastCall.op = "resolve"
    /\ lastCall.result.kind = "list"
    /\ lastCall.fileBefore.kind = "list"
    /\ Len(lastCall.fileBefore.data) >= 2
    /\ \E i \in 1..Len(lastCall.fileBefore.data) :
          /\ lastCall.fileBefore.data[i].id = lastCall.limit
          /\ lastCall.fileBefore.data[i].status = "Resolved"
    /\ jsonFile = lastCall.fileBefore

\* C16: a detection run's persist keeps every record the file held while the
\* total stays within the retention window, and beyond it drops only records
\* that are no newer than any record it keeps.
C16_RetentionOnly ==
    (lastCall.op = "run" /\ Len(lastCall.arg) > 0
        /\ lastCall.fileBefore.kind = "list") =>
        LET old == lastCall.fileBefore.data
            all == lastCall.arg \o old
            kept == IF jsonFile.kind = "list" THEN Records(jsonFile.data) ELSE {}
        IN  /\ Len(all) <= RETENTION => Records(old) \subseteq kept
            /\ \A r \in Records(old) \ kept :
                  \A s \in kept : r.timestamp <= s.timestamp

\* ---------------------------------------------------- claims on the sorting
\* The last operation was a query with a limit n > 0 answered from a cached
\* list.
SortQuery ==
    FallbackQuery /\ lastCall.limit > 0 /\ lastCall.cacheBefore.kind = "list"

\* The reorderings of a list.
Reorderings(d) ==
    {[i \in 1..Len(d) |-> d[p[i]]] : p \in Permutations(1..Len(d))}

Stamps(r) == [i \in 1..Len(r) |-> r[i].timestamp]

\* r picks Len(r) distinct positions of d, by f.
Picks(r, d, f) ==
    /\ \A i \in 1..Len(r) : r[i] = d[f[i]]
    /\ \A i, k \in 1..Len(r) : i # k => f[i] # f[k]

\* C7, as claimed: the records returned do not depend on the order in which
\* the cache stores them.
C7_OrderIndependent ==
    SortQuery =>
        \A p \in Reorderings(lastCall.cacheBefore.data) :
            SliceAndSort(p, lastCall.limit) = lastCall.result.data

\* C7, amended: the query returns min(n, size) records of the cache, in
\* descending order of timestamp, no record left out being newer than a
\* returned one; records with equal timestamps come in cache order; and the
\* timestamps returned do not depend on the order of the cache.
C7_TopByTimestamp ==
    SortQuery =>
        LET d == lastCall.cacheBefore.data
            r == lastCall.result.data
            n == lastCall.limit
        IN  /\ Len(r) = IF n < Len(d) THEN n ELSE Len(d)
            /\ \A i \in 1..(Len(r) - 1) : r[i].timestamp >= r[i + 1].timestamp
            /\ \E f \in [1..Len(r) -> 1..Len(d)] :
                /\ Picks(r, d, f)
                /\ \A j \in 1..Len(d) :
                     (\A i \in 1..Len(r) : f[i] # j) =>
                        \A i \in 1..Len(r) : d[j].timestamp <= r[i].timestamp
                /\ \A i, k \in 1..Len(r) :
                     (i < k /\ r[i].timestamp = r[k].timestamp) => f[i] < f[k]
            /\ \A p \in Reorderings(d) : Stamps(SliceAndSort(p, n)) = Stamps(r)

\* C7 witness: limit 2 over three cached records stored as the second
\* newest, the newest, the oldest, answered with the newest two.
C7_Witness ==
    /\ SortQuery
    /\ lastCall.limit = 2
    /\ Stamps(lastCall.cacheBefore.data) = <<1, 2, 0>>
    /\ Stamps(lastCall.result.data) = <<2, 1>>

\* ------------------------------------------ claims on the severity index
\* Confidences below c at which the index is compared with the one at c:
\* the next lower one and every twentieth of the range below c.
MonotoneProbes(c) ==
    {x \in {c - 1} \cup {j * (ConfScale \div 20) : j \in 0..20} : 0 <= x /\ x < c}

\* C17: for a confidence in [0, 1] and any category the severity index lies
\* in [0, 100], and no lower confidence of the same category scores higher.
C17_SeverityBoundedMonotone ==
    (detect.sev # -1 /\ detect.c >= 0 /\ detect.c <= ConfScale) =>
        /\ detect.sev >= 0
        /\ detect.sev <= FullScore
        /\ \A c1 \in MonotoneProbes(detect.c) :
              \A t \in TieSides(c1, detect.cat) :
                  compute_severity_index(c1, detect.cat, t) <= detect.sev

\* C17 witness: confidence 0.0005 of a DDoS, 0.045 points, rounded up to
\* 0.05.
C17_Witness ==
    /\ detect.cat = "DDoS"
    /\ detect.c = 5
    /\ detect.sev = 50

\* The weights the claim lists, in tenths.
ClaimedWeight(cat) ==
    IF cat = "DDoS" THEN 9
    ELSE IF cat = "Brute Force" THEN 10
    ELSE IF cat = "Port Scan" THEN 6
    ELSE IF cat = "Normal" THEN 1
    ELSE 5

\* C18: the severity index is a multiple of 0.01 that lies within 0.005 of
\* confidence x weight x 100 clamped to [0, 100], with the weights 0.9, 1.0,
\* 0.6, 0.1 and 0.5 for a category not listed; 1.0 of Brute Force gives
\* 100.00, 0.5 of Normal 5.00 and 0.5 of an unknown category 25.00.
C18_SeverityFormula ==
    detect.sev # -1 =>
        LET raw == detect.c * ClaimedWeight(detect.cat)
            clamped == IF raw < 0 THEN 0 ELSE IF raw > 100000 THEN 100000 ELSE raw
        IN  /\ detect.sev % 10 = 0
            /\ detect.sev - clamped <= 5
            /\ clamped - detect.sev <= 5
            /\ (detect.c = 10000 /\ detect.cat = "Brute Force") => detect.sev = 100000
            /\ (detect.c = 5000 /\ detect.cat = "Normal") => detect.sev = 5000
            /\ (detect.c = 5000 /\ detect.cat = "Botnet") => detect.sev = 25000

\* C18 witness: 0.5 of a category that SEVERITY_PROFILES does not list.
C18_Witness ==
    /\ detect.c = 5000
    /\ detect.cat = "Botnet"
    /\ detect.sev = 25000

\* ------------------------------------------ claims on the detection loop
\* The threats before position i that have the source of threat i.
EarlierFromSource(ts, i) ==
    Cardinality({j \in 1..(i - 1) : ts[j].source_ip = ts[i].source_ip})

\* C19: in a run, the first alert of a source keeps its severity and is not
\* flagged; every later alert of the source is flagged and scores its own
\* severity times 1.2, at most 100, whatever was escalated before; and a
\* source's counter counts its alerts only, never a Normal prediction.
C19_EscalationNotCompounded ==
    /\ \A i \in 1..Len(detect.threats) :
         LET th == detect.threats[i]
             x == (th.base_score * 12) \div 10
         IN  /\ th.predicted_label # "Normal"
             /\ \E t \in BOOLEAN :
                  th.base_score = compute_severity_index(th.confidence, th.predicted_label, t)
             /\ EarlierFromSource(detect.threats, i) = 0 =>
                  (th.risk_score = th.base_score /\ ~th.escalation_flag)
             /\ EarlierFromSource(detect.threats, i) > 0 =>
                  /\ th.escalation_flag
                  /\ th.risk_score = IF x > 100000 THEN 100000 ELSE x
    /\ \A s \in Sources :
         detect.counts[s] =
            Cardinality({i \in 1..Len(detect.threats) : detect.threats[i].source_ip = s})

\* C19 witness: three alerts of one source with
\* severity 50 each, scored 50, 60, 60 and flagged no, yes, yes.
C19_Witness ==
    /\ Len(detect.threats) = 3
    /\ \A i \in 1..3 : detect.threats[i].source_ip = "10.0.0.1"
    /\ \A i \in 1..3 : detect.threats[i].base_score = 50000
    /\ [i \in 1..3 |-> detect.threats[i].risk_score] = <<50000, 60000, 60000>>
    /\ [i \in 1..3 |-> detect.threats[i].escalation_flag] = <<FALSE, TRUE, TRUE>>

\* C20: every threat collected for persisting has a confidence in [0, 1]
\* and a risk score in [0, 100] that is a multiple of 0.01.
C20_ScoresRounded ==
    \A i \in 1..Len(detect.threats) :
        /\ detect.threats[i].confidence >= 0
        /\ detect.threats[i].confidence <= ConfScale
        /\ detect.threats[i].risk_score >= 0
        /\ detect.threats[i].risk_score <= FullScore
        /\ detect.threats[i].risk_score % 10 = 0

\* ---------------------------------------------- claims on the detection runs
\* C21: in the run under way the first alert of a source is not escalated
\* and keeps its severity, whatever earlier runs collected from that source.
C21_CounterScopedToRun ==
    \A i \in 1..Len(detect.threats) :
        EarlierFromSource(detect.threats, i) = 0 =>
            /\ ~detect.threats[i].escalation_flag
            /\ detect.threats[i].risk_score = detect.threats[i].base_score

\* C21 witness: the run before collected two alerts of a source, and the
\* first alert of that source in this run is not escalated.
C21_Witness ==
    /\ Len(detect.stored) = 2
    /\ \A j \in 1..2 : detect.stored[j].source_ip = "10.0.0.1"
    /\ Len(detect.threats) = 1
    /\ detect.threats[1].source_ip = "10.0.0.1"
    /\ ~detect.threats[1].escalation_flag

\* C22: a log yields a threat exactly when its classification did not raise
\* and predicted another label than 'Normal'; every threat is Active and
\* none is labelled 'Normal'.
C22_AlertIffNotBaseline ==
    /\ [][detect'.n = detect.n + 1 =>
            ((Len(detect'.threats) = Len(detect.threats) + 1)
                <=> (~detect'.log.raised /\ detect'.log.prediction # "Normal"))]_vars
    /\ [](\A i \in 1..Len(detect.threats) :
            /\ detect.threats[i].status = "Active"
            /\ detect.threats[i].predicted_label # "Normal")

\* C22 witness: a log predicted 'Normal' after an alert, and no threat for it.
C22_Witness ==
    /\ detect.n = 2
    /\ Len(detect.threats) = 1
    /\ detect.log = [raised |-> FALSE, prediction |-> "Normal"]

\* The threats collected from a source.
FromSource(ts, s) == {i \in 1..Len(ts) : ts[i].source_ip = s}

\* C23: a log whose classification raised counts for no source, and the
\* alerts of the other logs of its batch are all persisted, in the file or
\* in the primary collection (the file being absent or a list before).
C23_BatchSurvivesClassificationError ==
    /\ detect.skipped > 0 =>
          \A s \in Sources :
              detect.counts[s] = Cardinality(FromSource(detect.threats, s))
    /\ (lastCall.op = "run" /\ detect.skipped > 0
            /\ lastCall.fileBefore.kind \in {"list", "absent"}) =>
          /\ Len(lastCall.arg) = Len(detect.threats)
          /\ \A r \in Records(lastCall.arg) :
                \/ jsonFile.kind = "list" /\ r \in Records(jsonFile.data)
                \/ r \in Records(collection)

\* -------------------------------------------- claims on vectorize_payload
\* C24: whatever columns the frame has and whatever cells are missing, the
\* vector returned has the five required features in their fixed order and
\* no missing value, and the frame handed over is as it was.
C24_VectorComplete ==
    detect.vector # <<>> =>
        /\ [i \in 1..Len(detect.vector) |-> detect.vector[i].name] =
              <<"dest_port", "flow_duration", "total_fwd_packets",
                "total_l_fwd_packets", "packet_size">>
        /\ \A i \in 1..Len(detect.vector) :
              /\ detect.vector[i].value # NaN
              /\ detect.vector[i].value.den # 0
        /\ detect.frame = detect.given

\* C24 witness: a frame without packet_size, with a column that is not
\* required and with the total length missing, so that the derived
\* packet_size is missing before the fill.
C24_Witness ==
    /\ detect.vector # <<>>
    /\ DOMAIN detect.given = {"total_fwd_packets", "total_l_fwd_packets", "protocol"}
    /\ detect.given["total_l_fwd_packets"] = NaN
    /\ detect.given["total_fwd_packets"] = Cell(0)
    /\ detect.vector[5].value = Cell(0)

\* ---------------------------------------------- claims on the aggregation
\* The records of a source and a label among those handed over.
RecordsOf(src, label) ==
    {i \in 1..Len(detect.records) :
        /\ detect.records[i].source_ip = src
        /\ detect.records[i].predicted_label = label}

\* The rows returned for a source and a label.
RowsOf(src, label) ==
    {j \in 1..Len(detect.rows) :
        /\ detect.rows[j].source_ip = src
        /\ detect.rows[j].attack_type = label}

RECURSIVE SumOfCounts(_)
SumOfCounts(rows) ==
    IF rows = <<>> THEN 0 ELSE rows[1].count + SumOfCounts(Tail(rows))

\* C25: the aggregation returns one row for every pair of source and label
\* that occurs among the records and none for any other pair; the count of
\* a row is the number of records of its pair, and the counts add up to the
\* number of records.
C25_OneRowPerPair ==
    detect.aggregated =>
        /\ \A src \in Sources, label \in Categories :
              /\ Cardinality(RowsOf(src, label)) =
                    (IF RecordsOf(src, label) = {} THEN 0 ELSE 1)
              /\ \A j \in RowsOf(src, label) :
                    detect.rows[j].count = Cardinality(RecordsOf(src, label))
        /\ \A j \in 1..Len(detect.rows) :
              /\ detect.rows[j].source_ip \in Sources
              /\ detect.rows[j].attack_type \in Categories
        /\ SumOfCounts(detect.rows) = Len(detect.records)

\* C25 witness: three records, two of one pair and one of another with the
\* same source, aggregated to two rows.
C25_Witness ==
    /\ detect.aggregated
    /\ Len(detect.records) = 3
    /\ Len(detect.rows) = 2
    /\ detect.rows[1].source_ip = detect.rows[2].source_ip
    /\ detect.rows[1].count = 2

\* C26: for the records of the detection pipeline the avg_confidence of a row
\* is the mean of the confidence of its records, to the nearest hundredth;
\* two records of one pair with 0.8 and 0.6 give 0.70.
C26_AvgConfidenceIsMean ==
    (/\ detect.aggregated
     /\ \A i \in 1..Len(detect.records) : detect.records[i] \in PipelineRecords) =>
        \A j \in 1..Len(detect.rows) :
            LET group == RecordsOf(detect.rows[j].source_ip, detect.rows[j].attack_type)
                total == SumOfCounts([i \in 1..Len(detect.records) |->
                            [count |-> IF i \in group
                                       THEN detect.records[i].confidence ELSE 0]])
            IN  \E h \in 0..100 :
                    /\ detect.rows[j].avg_confidence = h
                    /\ 2 * (ConfScale \div 100) * Cardinality(group) * h - total * 2
                          \in (0 - (ConfScale \div 100) * Cardinality(group))
                              ..((ConfScale \div 100) * Cardinality(group))

\* C27: the max_risk of a row is the greatest risk_score of its records, and
\* no row comes before a row of greater max_risk.
C27_MaxRiskSorted ==
    detect.aggregated =>
        /\ \A j \in 1..Len(detect.rows) :
              LET group == RecordsOf(detect.rows[j].source_ip, detect.rows[j].attack_type)
              IN  /\ \E i \in group : detect.records[i].risk_score = detect.rows[j].max_risk
                  /\ \A i \in group : detect.records[i].risk_score <= detect.rows[j].max_risk
        /\ \A j \in 1..Len(detect.rows), k \in 1..Len(detect.rows) :
              j < k => detect.rows[j].max_risk >= detect.rows[k].max_risk

\* C27 witness: the pair seen first has the smaller risk, its greater risk
\* first, and comes second in the result.
C27_Witness ==
    /\ detect.aggregated
    /\ Len(detect.records) = 3
    /\ detect.records[1].risk_score = 70000
    /\ detect.records[2].risk_score = 90000
    /\ detect.records[3].risk_score = 70000
    /\ detect.records[1].source_ip # detect.records[2].source_ip
    /\ detect.records[3].source_ip = detect.records[2].source_ip
    /\ detect.records[3].predicted_label = detect.records[2].predicted_label
    /\ Len(detect.rows) = 2
    /\ detect.rows[1].source_ip = detect.records[2].source_ip
    /\ detect.rows[1].max_risk = 90000

\* C28: the last_seen of a row is the greatest timestamp of its records, in
\* whatever order the records are handed over.
C28_LastSeenGreatest ==
    detect.aggregated =>
        \A j \in 1..Len(detect.rows) :
            LET group == RecordsOf(detect.rows[j].source_ip, detect.rows[j].attack_type)
            IN  /\ \E i \in group : detect.records[i].timestamp = detect.rows[j].last_seen
                /\ \A i \in group : detect.records[i].timestamp <= detect.rows[j].last_seen

\* C28 witness: the record with the greatest timestamp of its pair is handed
\* over first and the row has its timestamp.
C28_Witness ==
    /\ detect.aggregated
    /\ Len(detect.records) = 2
    /\ detect.records[1].timestamp = 2
    /\ detect.records[2].timestamp = 1
    /\ Len(detect.rows) = 1
    /\ detect.rows[1].last_seen = 2

\* ------------------------------------------------- claims on the topology
\* The active records among those fetched that target an address.
Targeting(ip) ==
    {i \in 1..Len(detect.records) :
        /\ detect.records[i].status # "Resolved"
        /\ detect.records[i].destination_ip = ip}

\* C29: when the records fetched are as run_detection stores them, every
\* node whose address no active record targets is Healthy with 0 threats,
\* and every other node has the number of its active records as threats and
\* is Compromised from a greatest risk of 80, Warning from 60, else Healthy.
C29_NodeStatusFromAlerts ==
    (/\ detect.topology # <<>>
     /\ \A i \in 1..Len(detect.records) : detect.records[i] \in StoredThreats) =>
        \A n \in 1..Len(detect.topology) :
            LET node == detect.topology[n]
                M == Targeting(node.ip)
            IN  /\ node.threats = Cardinality(M)
                /\ node.status =
                      IF \E i \in M : detect.records[i].risk_score >= 80000
                      THEN "Compromised"
                      ELSE IF \E i \in M : detect.records[i].risk_score >= 60000
                      THEN "Warning"
                      ELSE "Healthy"

\* The alert set a topology query is served from: the primary when its read
\* succeeded, else the file.
CurrentAlerts ==
    IF lastCall.rd = "ok" THEN collection
    ELSE IF jsonFile.kind = "list" THEN jsonFile.data ELSE <<>>

\* C30: a topology query that returns when the current alert set holds an
\* alert a detection run persisted gives server-app, which every alert
\* targets, the number of the current active alerts as threats, and returns
\* the static nodes with their static fields and the static links.
C30_TopologyReflectsAlerts ==
    (/\ lastCall.op = "topology"
     /\ lastCall.result.kind = "topology"
     /\ \E i \in 1..Len(CurrentAlerts) :
            /\ CurrentAlerts[i].id >= FirstRunId
            /\ CurrentAlerts[i].status = "Active") =>
        /\ \A n \in 1..Len(STATIC_NODES) :
              /\ lastCall.result.data[n].id = STATIC_NODES[n].id
              /\ lastCall.result.data[n].ip = STATIC_NODES[n].ip
              /\ lastCall.result.data[n].ip = "10.0.0.10" =>
                    lastCall.result.data[n].threats =
                        Cardinality({i \in 1..Len(CurrentAlerts) :
                                        CurrentAlerts[i].status # "Resolved"})
        /\ lastCall.result.links = STATIC_LINKS

\* ------------------------------------------ claims on the adapter, further
\* What a query gives on a reachable store that holds no record: the answer
\* of the primary on an empty collection.
NoDataResult(limit) == Returned(SliceAndSort(<<>>, limit))

\* The data is unavailable to a query: the primary gave no answer, nothing
\* is cached and the fallback file is absent or unreadable.
DataUnavailable ==
    /\ lastCall.op = "query"
    /\ lastCall.rd # "ok"
    /\ lastCall.cacheBefore.kind = "none"
    /\ lastCall.fileBefore.kind \in {"absent", "corrupt"}

\* C31: a query to which the data is unavailable does not give its caller
\* the result that a reachable store without records gives.
C31_UnavailableDistinguished ==
    DataUnavailable => lastCall.result # NoDataResult(lastCall.limit)

\* C32: the circuit deadline changes only in a step of a call that made a
\* real connection attempt; after a call that made none (short-circuited, or
\* on the cached handle, its read failing or not, served by the fallback or
\* not) and after a write the deadline is what it was before the call.
C32_CircuitOnlyByAttempt ==
    /\ [][circuit_open_until' # circuit_open_until =>
            /\ lastCall' # lastCall
            /\ lastCall'.op \in {"connect", "query"}
            /\ lastCall'.attempted]_vars
    /\ [](~lastCall.attempted => circuit_open_until = lastCall.untilBefore)

\* C32 witness: with the circuit open a query is short-circuited and served
\* by the fallback, and the deadline is as before.
C32_Witness ==
    /\ lastCall.op = "query"
    /\ ~lastCall.attempted
    /\ lastCall.rd = "none"
    /\ lastCall.untilBefore > lastCall.start
    /\ circuit_open_until = lastCall.untilBefore

\* ------------------------------------------- claims on the persist step
\* C33: during a detection run the primary and the file change only in the
\* persist step, which comes once, after the logs are processed, and only
\* when the run collected a threat; a run that collected none leaves both
\* as they were.
C33_OneWriteAfterLoop ==
    /\ [][(jsonFile' # jsonFile \/ collection' # collection) =>
            /\ lastCall.op # "run"
            /\ lastCall'.op = "run"
            /\ Len(lastCall'.arg) > 0
            /\ Len(lastCall'.arg) = Len(detect.threats)]_vars
    /\ []((lastCall.op = "run" /\ Len(lastCall.arg) = 0) =>
            /\ jsonFile = lastCall.fileBefore
            /\ collection = <<>>)

\* C33 witness: a run whose logs were all baseline or failed to classify has
\* ended, and the file holds the two records it held.
C33_Witness ==
    /\ lastCall.op = "run"
    /\ detect.n > 1
    /\ detect.threats = <<>>
    /\ lastCall.arg = <<>>
    /\ jsonFile = PyList(<<OldAlert1, OldAlert2>>)
    /\ collection = <<>>

\* ------------------------------------- claims on vectorize_payload, further
\* Two cells hold the same number.
SameNumber(x, y) == x.den # 0 /\ y.den # 0 /\ x.num * y.den = y.num * x.den

\* C34: for a frame without packet_size, the packet_size returned is the
\* total length over the packet count, a count of 0 taken as 1, when the
\* frame has both columns, and 0 when it lacks either; no divisor is 0.
C34_PacketSizeDerived ==
    (detect.vector # <<>> /\ "packet_size" \notin DOMAIN detect.given) =>
        LET size == detect.vector[5].value
        IN  /\ size.den # 0
            /\ IF {"total_l_fwd_packets", "total_fwd_packets"} \subseteq DOMAIN detect.given
               THEN LET len == detect.given["total_l_fwd_packets"]
                        cnt == detect.given["total_fwd_packets"]
                    IN  SameNumber(size,
                            IF len.den = 0 \/ cnt.den = 0 THEN [num |-> 0, den |-> 1]
                            ELSE [num |-> len.num,
                                  den |-> IF cnt.num = 0 THEN 1 ELSE cnt.num])
               ELSE SameNumber(size, [num |-> 0, den |-> 1])

\* ------------------------------------------------ claims on the lifecycle
\* C35: after a successful resolve the file holds the records it held, in
\* their order, each as it was but for the status of the record with the
\* given id, which is Resolved; and in no step of a resolve, a block or a
\* detection run does a record that is Resolved in the file become Active.
C35_OnlyStatusNeverReopened ==
    /\ []((lastCall.op = "resolve" /\ lastCall.result.kind = "list") =>
            /\ lastCall.fileBefore.kind = "list"
            /\ jsonFile.kind = "list"
            /\ Len(jsonFile.data) = Len(lastCall.fileBefore.data)
            /\ \A i \in 1..Len(jsonFile.data) :
                  /\ [jsonFile.data[i] EXCEPT !.status = "any"] =
                        [lastCall.fileBefore.data[i] EXCEPT !.status = "any"]
                  /\ jsonFile.data[i].id # lastCall.limit =>
                        jsonFile.data[i] = lastCall.fileBefore.data[i]
                  /\ jsonFile.data[i].id = lastCall.limit =>
                        jsonFile.data[i].status = "Resolved")
    /\ [][(jsonFile.kind = "list" /\ jsonFile'.kind = "list") =>
            \A i \in 1..Len(jsonFile.data), j \in 1..Len(jsonFile'.data) :
                (/\ jsonFile.data[i].id = jsonFile'.data[j].id
                 /\ jsonFile.data[i].status = "Resolved")
                    => jsonFile'.data[j].status = "Resolved"]_vars

\* C35 witness: the second of two Active records was resolved; a detection
\* run then put its alert in front of them and the record is still Resolved.
C35_Witness ==
    /\ lastCall.op = "run"
    /\ Len(lastCall.arg) = 1
    /\ lastCall.fileBefore.kind = "list"
    /\ Len(lastCall.fileBefore.data) = 2
    /\ lastCall.fileBefore.data[1].status = "Active"
    /\ lastCall.fileBefore.data[2].status = "Resolved"
    /\ jsonFile.kind = "list"
    /\ Len(jsonFile.data) = 3
    /\ jsonFile.data[3] = lastCall.fileBefore.data[2]

====
